---- MODULE Spec2Model ----
(***************************************************************************)
(* Model of the Zimperium integration's incremental event fetch:           *)
(* Packs/Zimperium/Integrations/Zimperium/Zimperium.py                     *)
(*   Client.events_search_request, fetch_incidents,                        *)
(*   event_severity_to_dbot_score and the fetch-incidents branch of main.  *)
(*                                                                         *)
(* Python strings are sequences of one-character strings, so that          *)
(* str.lower, json.dumps, the substring test `x in s` and the string       *)
(* comparison behind min('50', ...) are computed as Python computes them.  *)
(***************************************************************************)
EXTENDS Integers, Sequences, FiniteSets, TLC

\* ------------------------------------------------------------------ bounds
MaxTime == 2        \* the clock runs over 0..MaxTime
MaxEvents == 2      \* events the server holds at most
MaxPage == 2        \* longest page a stubbed client hands back
MaxDigits == 3      \* longest configured max_fetch string
FirstFetch == 1     \* the configured fetch_time, in clock units

\* ----------------------------------------------------------- Python values
\* None, where a dict.get() finds no key; a one-element tuple so that it
\* compares with character sequences without being one.
None == <<"<None>">>

Upper == <<"A","B","C","D","E","F","G","H","I","J","K","L","M",
           "N","O","P","Q","R","S","T","U","V","W","X","Y","Z">>
LowerAlpha == <<"a","b","c","d","e","f","g","h","i","j","k","l","m",
                "n","o","p","q","r","s","t","u","v","w","x","y","z">>
Digits == <<"0","1","2","3","4","5","6","7","8","9">>

\* str.lower(), one character
LowerChar(c) ==
    IF \E i \in 1..Len(Upper) : Upper[i] = c
    THEN LowerAlpha[CHOOSE i \in 1..Len(Upper) : Upper[i] = c]
    ELSE c

\* str.upper(), one character (used to enumerate inputs only)
UpperChar(c) ==
    IF \E i \in 1..Len(LowerAlpha) : LowerAlpha[i] = c
    THEN Upper[CHOOSE i \in 1..Len(LowerAlpha) : LowerAlpha[i] = c]
    ELSE c

\* str.lower()
PyLower(s) == [i \in 1..Len(s) |-> LowerChar(s[i])]

\* the code point order of the characters compared in this model (digits)
Ord(c) == CHOOSE i \in 1..Len(Digits) : Digits[i] = c

\* Python's `a < b` on str: lexicographic by code point, a proper prefix first
RECURSIVE StrLess(_, _)
StrLess(a, b) ==
    IF a = <<>> THEN b # <<>>
    ELSE IF b = <<>> THEN FALSE
    ELSE IF a[1] = b[1] THEN StrLess(Tail(a), Tail(b))
    ELSE Ord(a[1]) < Ord(b[1])

\* Python's min(a, b): the first argument unless the second is smaller
PyMin(a, b) == IF StrLess(b, a) THEN b ELSE a

\* int(s) of a decimal string, as the server reads the size parameter
RECURSIVE StrToInt(_)
StrToInt(s) ==
    IF s = <<>> THEN 0
    ELSE 10 * StrToInt(SubSeq(s, 1, Len(s) - 1)) + (Ord(s[Len(s)]) - 1)

\* Python's `s in t` on str: s occurs as a contiguous substring of t
IsSubstring(s, t) ==
    \E i \in 0..(Len(t) - Len(s)) : SubSeq(t, i + 1, i + Len(s)) = s

\* json.dumps of a list of strings: ["a", "ab"]
Quote(s) == <<"\"">> \o s \o <<"\"">>

RECURSIVE JoinIds(_)
JoinIds(ids) ==
    IF ids = <<>> THEN <<>>
    ELSE IF Len(ids) = 1 THEN Quote(ids[1])
    ELSE Quote(ids[1]) \o <<",", " ">> \o JoinIds(Tail(ids))

json_dumps(ids) == <<"[">> \o JoinIds(ids) \o <<"]">>

\* a Python list / a Python str held under one dict key
PyList(ids) == [kind |-> "list", val |-> ids]
PyStr(chars) == [kind |-> "str", val |-> chars]

\* ------------------------------------------------------------ timestamps
\* The vendor's persistedTime text, the text strftime writes, and text that
\* dateparser cannot read.
VendorText(t) == <<"vendor", t>>
IsoText(t) == <<"iso", t>>
Garbled == <<"garbled", 0>>

\* dateparser.parse: a datetime, or None for text it cannot read
parse(text) ==
    IF text[1] \in {"vendor", "iso"} THEN [ok |-> TRUE, t |-> text[2]]
    ELSE [ok |-> FALSE, t |-> 0]

\* datetime.strftime(timestamp_format)
strftime(dt) == IsoText(dt.t)

\* parse_date_range(first_fetch_time, date_format=timestamp_format)[0]
parse_date_range(now) == IsoText(now - FirstFetch)

\* the instant a time text of the cursor denotes (the server's reading of it)
InstantOf(text) == text[2]

\* ---------------------------------------------------------------- inputs
a_id == <<"a">>
ab_id == <<"a", "b">>
c_id == <<"c">>
\* event ids; "a" occurs inside "ab", so the substring test can tell them apart
\* from the list test
Ids == {a_id, ab_id, c_id}

Low == <<"L", "o", "w">>
medium == <<"m", "e", "d", "i", "u", "m">>
\* an event the server persists is well formed, or its time text does not parse
EventKinds == {<<TRUE, Low>>, <<FALSE, Low>>}

MaxDeviceTime == 1
DeviceTimes == 0..MaxDeviceTime

\* the configured max_fetch values of the polling model: "1" and "6"
one_str == <<"1">>
six_str == <<"6">>
fifty_str == <<"5", "0">>
MaxFetchParams == {one_str, six_str}

\* an event as the server holds it and as the response's JSON carries it:
\* persisted is the server's instant, persistedTime the text rendering of it
Event(id, t, d, ok, sev) ==
    [eventId |-> id, persisted |-> t, deviceTime |-> d,
     persistedTime |-> IF ok THEN VendorText(t) ELSE Garbled, severity |-> sev]

\* the absent last run, {} in Python
EmptyDict == [absent |-> TRUE]

VARIABLES
    now,               \* the clock
    source,            \* the events the vendor's server holds
    params_max_fetch,  \* demisto.params()['max_fetch']
    lastRun,           \* the platform's last-run store (getLastRun/setLastRun)
    pc,                \* where main is: idle, fetched, stored, error
    request,           \* the params of the last events search request
    events_data,       \* the content of its response
    next_run,          \* main's local next_run
    incidents,         \* main's local incidents
    last_error,        \* where the last run raised, or "none"
    returned,          \* per event id, how many returned incidents carried it
    handed,            \* per event id, how many incidents handed to the platform
    severity_str,      \* argument of a call of event_severity_to_dbot_score
    dbot_score,        \* its result (-1 before the call, -2 when it raised)
    max_fetch          \* main's local max_fetch ("" before it is computed)

vars == <<now, source, params_max_fetch, lastRun, pc, request, events_data,
          next_run, incidents, last_error, returned, handed,
          severity_str, dbot_score, max_fetch>>

\* ------------------------------------------------- event_severity_to_dbot_score
\* lines 530-538; "raise" stands for the AttributeError of None.lower()
event_severity_to_dbot_score(s) ==
    IF s = None THEN [raised |-> TRUE, score |-> 0]
    ELSE LET severity == PyLower(s) IN
         IF severity = <<"l", "o", "w">> THEN [raised |-> FALSE, score |-> 1]
         ELSE IF severity = <<"i", "m", "p", "o", "r", "t", "a", "n", "t">>
              THEN [raised |-> FALSE, score |-> 2]
         ELSE IF severity = <<"c", "r", "i", "t", "i", "c", "a", "l">>
              THEN [raised |-> FALSE, score |-> 3]
         ELSE [raised |-> FALSE, score |-> 0]

\* ------------------------------------------------------------------ main
\* line 552: max_fetch = min('50', params.get('max_fetch', '50'))
MainMaxFetch(p) == PyMin(fifty_str, p)

\* --------------------------------------------- Client.events_search_request
\* mutant of FetchQuery: the query of events_search, which selects every event
FetchQuery_everyEvent(run) == [field |-> "eventId", op |-> "any", value |-> run.time]

\* line 488: query=f"persistedTime=gt={next_run.get('time')}"
FetchQuery(run) == [field |-> "persistedTime", op |-> "gt", value |-> run.time]

\* lines 198-204: the request's params
events_search_params(query, size, page, verbose) ==
    [rsql |-> query, size |-> size, page |-> page,
     sort |-> "deviceTime", includeFullEventDetail |-> verbose]

\* the vendor's server: which events an rsql comparison selects
Matches(ev, rsql) ==
    LET v == InstantOf(rsql.value) IN
    CASE rsql.op = "gt" -> ev.persisted > v
      [] rsql.op = "ge" -> ev.persisted >= v
      [] rsql.op = "lt" -> ev.persisted < v
      [] OTHER -> TRUE

SortKey(ev, sort) == IF sort = "deviceTime" THEN ev.deviceTime ELSE ev.persisted

\* every ordering of S ascending by the sort field (ties in any order)
SortedSeqs(S, sort) ==
    {s \in [1..Cardinality(S) -> S] :
        /\ \A i, j \in 1..Cardinality(S) : i # j => s[i] # s[j]
        /\ \A i, j \in 1..Cardinality(S) :
              i < j => SortKey(s[i], sort) <= SortKey(s[j], sort)}

\* page `page` of `size` entries of s
PageOf(s, size, page) ==
    SubSeq(s, page * size + 1,
           IF (page + 1) * size < Len(s) THEN (page + 1) * size ELSE Len(s))

\* the contents the server may answer the request with
ServerContents(store, req) ==
    {PageOf(s, StrToInt(req.size), StrToInt(req.page)) :
        s \in SortedSeqs({ev \in store : Matches(ev, req.rsql)}, req.sort)}

\* ------------------------------------------------------- fetch_incidents
\* mutant of EffectiveRun: every poll starts from the first-fetch cursor
EffectiveRun_alwaysFirst(last_run, clock) ==
    [time |-> parse_date_range(clock), last_event_ids |-> PyList(<<>>)]

\* lines 478-484: the cursor the poll starts from
EffectiveRun(last_run, clock) ==
    IF last_run = EmptyDict
    THEN [time |-> parse_date_range(clock), last_event_ids |-> PyList(<<>>)]
    ELSE last_run

\* mutant of LastEventIds: the ids of the last fetch are forgotten
LastEventIds_forgotten(last_run) == PyList(<<>>)

\* line 493: last_run.get('last_event_ids', [])
LastEventIds(last_run) ==
    IF last_run = EmptyDict THEN PyList(<<>>) ELSE last_run.last_event_ids

\* line 497, the test `event_id in last_event_ids`: membership in a list,
\* substring of a str
InLastEventIds(event_id, last_event_ids) ==
    IF last_event_ids.kind = "list"
    THEN \E i \in 1..Len(last_event_ids.val) : last_event_ids.val[i] = event_id
    ELSE IsSubstring(event_id, last_event_ids.val)

\* lines 499-504: the incident of an event (name, from incidentSummary, is
\* not modelled; rawJSON is the event as received)
Incident(event_data, event_created_time, score) ==
    [occurred |-> strftime(event_created_time), severity |-> score,
     rawJSON |-> event_data]

\* mutant of NextRunAfter: the ids are started afresh at every accepted event
NextRunAfter_lastIdOnly(event_created_time, ids) ==
    [time |-> strftime(event_created_time),
     last_event_ids |-> PyStr(json_dumps(<<ids[Len(ids)]>>))]

\* lines 508-511: the cursor written after an accepted event
NextRunAfter(event_created_time, ids) ==
    [time |-> strftime(event_created_time),
     last_event_ids |-> PyStr(json_dumps(ids))]

\* mutant of ProcessEvent: an event is skipped only when, besides its id being
\* in last_event_ids, its time equals the cursor's time
ProcessEvent_skipsAtWatermarkOnly(st, event_data) ==
    IF st.raised # "none" THEN st
    ELSE IF /\ InLastEventIds(event_data.eventId, st.last_event_ids)
            /\ parse(event_data.persistedTime).ok
            /\ strftime(parse(event_data.persistedTime)) = st.next_run.time
         THEN st
    ELSE LET event_created_time == parse(event_data.persistedTime)
             score == event_severity_to_dbot_score(event_data.severity)
         IN  IF ~event_created_time.ok THEN [st EXCEPT !.raised = "strftime"]
             ELSE IF score.raised THEN [st EXCEPT !.raised = "lower"]
             ELSE IF st.last_event_ids.kind # "list"
                  THEN [st EXCEPT !.raised = "extend"]
             ELSE LET ids == Append(st.last_event_ids.val, event_data.eventId)
                  IN  [raised |-> "none",
                       last_event_ids |-> PyList(ids),
                       incidents |-> Append(st.incidents,
                                            Incident(event_data, event_created_time,
                                                     score.score)),
                       next_run |-> NextRunAfter(event_created_time, ids)]

\* mutant of ProcessEvent: an event whose time does not parse is skipped
ProcessEvent_skipsUnparsed(st, event_data) ==
    IF st.raised # "none" THEN st
    ELSE IF InLastEventIds(event_data.eventId, st.last_event_ids) THEN st
    ELSE LET event_created_time == parse(event_data.persistedTime)
             score == event_severity_to_dbot_score(event_data.severity)
         IN  IF ~event_created_time.ok THEN st
             ELSE IF score.raised THEN [st EXCEPT !.raised = "lower"]
             ELSE IF st.last_event_ids.kind # "list"
                  THEN [st EXCEPT !.raised = "extend"]
             ELSE LET ids == Append(st.last_event_ids.val, event_data.eventId)
                  IN  [raised |-> "none",
                       last_event_ids |-> PyList(ids),
                       incidents |-> Append(st.incidents,
                                            Incident(event_data, event_created_time,
                                                     score.score)),
                       next_run |-> NextRunAfter(event_created_time, ids)]

\* lines 495-511: one iteration of the loop over events_data. st.raised names
\* the call that raised: "strftime" (None.strftime, line 501), "lower"
\* (None.lower, line 530), "extend" (str has no extend, line 506).
ProcessEvent(st, event_data) ==
    IF st.raised # "none" THEN st
    ELSE IF InLastEventIds(event_data.eventId, st.last_event_ids) THEN st
    ELSE LET event_created_time == parse(event_data.persistedTime)
             score == event_severity_to_dbot_score(event_data.severity)
         IN  IF ~event_created_time.ok THEN [st EXCEPT !.raised = "strftime"]
             ELSE IF score.raised THEN [st EXCEPT !.raised = "lower"]
             ELSE IF st.last_event_ids.kind # "list"
                  THEN [st EXCEPT !.raised = "extend"]
             ELSE LET ids == Append(st.last_event_ids.val, event_data.eventId)
                  IN  [raised |-> "none",
                       last_event_ids |-> PyList(ids),
                       incidents |-> Append(st.incidents,
                                            Incident(event_data, event_created_time,
                                                     score.score)),
                       next_run |-> NextRunAfter(event_created_time, ids)]

\* line 494: for event_data in events_data
RECURSIVE Loop(_, _)
Loop(st, content) ==
    IF content = <<>> THEN st
    ELSE Loop(ProcessEvent(st, Head(content)), Tail(content))

\* lines 477-514. ok is whether the events search request succeeded, content
\* the 'content' of its response. The result's raised is "none" when the
\* call returns (next_run, incidents).
fetch_incidents(last_run, clock, ok, content) ==
    IF ~ok
    THEN [raised |-> "request", last_event_ids |-> LastEventIds(last_run),
          incidents |-> <<>>, next_run |-> EffectiveRun(last_run, clock)]
    ELSE Loop([raised |-> "none", last_event_ids |-> LastEventIds(last_run),
               incidents |-> <<>>, next_run |-> EffectiveRun(last_run, clock)],
              content)

\* ------------------------------------------------------------------ main
NoRequest == [rsql |-> [field |-> "", op |-> "", value |-> IsoText(0)],
              size |-> <<>>, page |-> <<>>, sort |-> "",
              includeFullEventDetail |-> FALSE]

\* the request fetch_incidents sends for the stored last run (lines 488-489)
FetchRequest ==
    events_search_params(FetchQuery(EffectiveRun(lastRun, now)),
                         MainMaxFetch(params_max_fetch), <<"0">>, FALSE)

\* how many incidents of seq carry event id
CountOf(seq, id) == Cardinality({i \in 1..Len(seq) : seq[i].rawJSON.eventId = id})
Cap2(n) == IF n > 2 THEN 2 ELSE n
Logged(log, seq) == [id \in Ids |-> Cap2(log[id] + CountOf(seq, id))]

InitBase ==
    /\ now = 0
    /\ source = {}
    /\ lastRun = EmptyDict
    /\ pc = "idle"
    /\ request = NoRequest
    /\ events_data = <<>>
    /\ next_run = EmptyDict
    /\ incidents = <<>>
    /\ last_error = "none"
    /\ returned = [id \in Ids |-> 0]
    /\ handed = [id \in Ids |-> 0]
    /\ dbot_score = -1
    /\ max_fetch = <<>>

Init ==
    /\ InitBase
    /\ severity_str = None
    /\ params_max_fetch \in MaxFetchParams

\* the clock advances between runs
Tick ==
    /\ pc = "idle"
    /\ now < MaxTime
    /\ now' = now + 1
    /\ UNCHANGED <<source, params_max_fetch, lastRun, pc, request, events_data,
                   next_run, incidents, last_error, returned, handed,
                   severity_str, dbot_score, max_fetch>>

\* the vendor's server persists a new event, stamped with the current time
AddEvent ==
    /\ pc = "idle"
    /\ Cardinality(source) < MaxEvents
    /\ \E id \in Ids, d \in DeviceTimes, k \in EventKinds :
          /\ \A ev \in source : ev.eventId # id
          /\ source' = source \cup {Event(id, now, d, k[1], k[2])}
    /\ UNCHANGED <<now, params_max_fetch, lastRun, pc, request, events_data,
                   next_run, incidents, last_error, returned, handed,
                   severity_str, dbot_score, max_fetch>>

\* mutant of RunFetch: the cursor is stored also when fetch_incidents raised
RunFetch_storesOnError(ok, content) ==
    LET r == fetch_incidents(lastRun, now, ok, content) IN
    /\ pc = "idle"
    /\ max_fetch' = MainMaxFetch(params_max_fetch)
    /\ request' = FetchRequest
    /\ events_data' = IF ok THEN content ELSE <<>>
    /\ last_error' = r.raised
    /\ IF r.raised = "none"
       THEN /\ pc' = "fetched"
            /\ next_run' = r.next_run
            /\ incidents' = r.incidents
            /\ returned' = Logged(returned, r.incidents)
            /\ UNCHANGED lastRun
       ELSE /\ pc' = "error"
            /\ lastRun' = r.next_run
            /\ UNCHANGED <<next_run, incidents, returned>>
    /\ UNCHANGED <<now, source, params_max_fetch, handed,
                   severity_str, dbot_score>>

\* lines 552 and 570-576: main computes max_fetch and calls fetch_incidents,
\* whose events search request succeeds with content or fails (ok = FALSE)
RunFetch(ok, content) ==
    LET r == fetch_incidents(lastRun, now, ok, content) IN
    /\ pc = "idle"
    /\ max_fetch' = MainMaxFetch(params_max_fetch)
    /\ request' = FetchRequest
    /\ events_data' = IF ok THEN content ELSE <<>>
    /\ last_error' = r.raised
    /\ IF r.raised = "none"
       THEN /\ pc' = "fetched"
            /\ next_run' = r.next_run
            /\ incidents' = r.incidents
            /\ returned' = Logged(returned, r.incidents)
       ELSE /\ pc' = "error"
            /\ UNCHANGED <<next_run, incidents, returned>>
    /\ UNCHANGED <<now, source, params_max_fetch, lastRun, handed,
                   severity_str, dbot_score>>

\* the fetch-incidents run against the vendor's server
MainFetch ==
    \E ok \in BOOLEAN, content \in ServerContents(source, FetchRequest) :
        RunFetch(ok, content)

\* mutant of MainSetLastRun: the cursor is stored only when there are incidents
MainSetLastRun_onlyWithIncidents ==
    /\ pc = "fetched"
    /\ lastRun' = (IF incidents # <<>> THEN next_run ELSE lastRun)
    /\ pc' = "stored"
    /\ UNCHANGED <<now, source, params_max_fetch, request, events_data,
                   next_run, incidents, last_error, returned, handed,
                   severity_str, dbot_score, max_fetch>>

\* line 577: demisto.setLastRun(next_run)
MainSetLastRun ==
    /\ pc = "fetched"
    /\ lastRun' = next_run
    /\ pc' = "stored"
    /\ UNCHANGED <<now, source, params_max_fetch, request, events_data,
                   next_run, incidents, last_error, returned, handed,
                   severity_str, dbot_score, max_fetch>>

\* line 578: demisto.incidents(incidents), which hands them over or raises
MainIncidents ==
    /\ pc = "stored"
    /\ \E ok \in BOOLEAN :
          IF ok
          THEN /\ handed' = Logged(handed, incidents)
               /\ pc' = "idle"
               /\ next_run' = EmptyDict
               /\ incidents' = <<>>
               /\ events_data' = <<>>
               /\ request' = NoRequest
               /\ max_fetch' = <<>>
               /\ UNCHANGED last_error
          ELSE /\ pc' = "error"
               /\ last_error' = "incidents"
               /\ UNCHANGED <<handed, next_run, incidents, events_data,
                              request, max_fetch>>
    /\ UNCHANGED <<now, source, params_max_fetch, lastRun, returned,
                   severity_str, dbot_score>>

\* lines 584-585: except Exception -> return_error, which ends the run (the
\* locals of main are gone with it)
ReturnError ==
    /\ pc = "error"
    /\ pc' = "idle"
    /\ next_run' = EmptyDict
    /\ incidents' = <<>>
    /\ events_data' = <<>>
    /\ request' = NoRequest
    /\ max_fetch' = <<>>
    /\ last_error' = "none"
    /\ UNCHANGED <<now, source, params_max_fetch, lastRun,
                   returned, handed, severity_str, dbot_score>>

Next ==
    \/ Tick
    \/ AddEvent
    \/ MainFetch
    \/ MainSetLastRun
    \/ MainIncidents
    \/ ReturnError

Spec == Init /\ [][Next]_vars

\* ------------------------------------------- fetch_incidents, client stubbed
\* fetch_incidents takes its client as an argument; here the client is a stub
\* whose response is any page of events, whatever the query asked for.
StubTimes == {0, 1}

\* the events of a stubbed answer: every id at either time, well formed, and
\* event "c" at time 0 also with an unrecognized severity or with none
StubEvents ==
    {Event(id, t, 0, TRUE, Low) : id \in Ids, t \in StubTimes}
    \cup {Event(c_id, 0, 0, TRUE, sev) : sev \in {medium, None}}

StubPages == UNION {[1..n -> StubEvents] : n \in 0..MaxPage}

StubFetch == \E ok \in BOOLEAN, content \in StubPages : RunFetch(ok, content)

InitStub == InitBase /\ severity_str = None /\ params_max_fetch = six_str

NextStub ==
    \/ StubFetch
    \/ MainSetLastRun
    \/ MainIncidents
    \/ ReturnError

SpecStub == InitStub /\ [][NextStub]_vars

\* --------------------------- event_severity_to_dbot_score, called on strings
RECURSIVE CaseVariants(_)
CaseVariants(w) ==
    IF w = <<>> THEN {<<>>}
    ELSE {<<c>> \o r : c \in {w[1], UpperChar(w[1])}, r \in CaseVariants(Tail(w))}

low_w == <<"l", "o", "w">>
important_w == <<"i", "m", "p", "o", "r", "t", "a", "n", "t">>
critical_w == <<"c", "r", "i", "t", "i", "c", "a", "l">>
medium_w == <<"m", "e", "d", "i", "u", "m">>
high_w == <<"h", "i", "g", "h">>
unknown_w == <<"u", "n", "k", "n", "o", "w", "n">>

\* the severity strings the function is called on: every capitalisation of
\* the words of the lookup, of an unknown word, of a prefix and an extension
\* of "low", and the empty string
SeverityInputs ==
    UNION {CaseVariants(w) :
             w \in {low_w, important_w, critical_w, medium_w, high_w, unknown_w,
                    <<"l", "o">>, <<"l", "o", "w", "s">>, <<>>}}

InitSeverity ==
    /\ InitBase
    /\ severity_str \in SeverityInputs
    /\ params_max_fetch = six_str

\* a call event_severity_to_dbot_score(severity_str)
CallSeverity ==
    /\ dbot_score = -1
    /\ dbot_score' = (LET r == event_severity_to_dbot_score(severity_str)
                      IN  IF r.raised THEN -2 ELSE r.score)
    /\ UNCHANGED <<now, source, params_max_fetch, lastRun, pc, request,
                   events_data, next_run, incidents, last_error, returned,
                   handed, severity_str, max_fetch>>

SpecSeverity == InitSeverity /\ [][CallSeverity]_vars

\* ------------------------------------------------- main, the fetch params
\* the decimal strings of the positive integers of at most MaxDigits digits
RECURSIVE DigitStrings(_)
DigitStrings(n) ==
    IF n = 0 THEN {<<>>}
    ELSE {<<Digits[i]>> \o r : i \in 1..Len(Digits), r \in DigitStrings(n - 1)}

PositiveDecimals ==
    {s \in UNION {DigitStrings(n) : n \in 1..MaxDigits} : s[1] # "0"}

InitParams ==
    /\ InitBase
    /\ severity_str = None
    /\ params_max_fetch \in PositiveDecimals

\* lines 545-552: main reads the fetch params
MainParams ==
    /\ max_fetch = <<>>
    /\ max_fetch' = MainMaxFetch(params_max_fetch)
    /\ UNCHANGED <<now, source, params_max_fetch, lastRun, pc, request,
                   events_data, next_run, incidents, last_error, returned,
                   handed, severity_str, dbot_score>>

SpecParams == InitParams /\ [][MainParams]_vars

\* ================================================================ claims
\* a RunFetch step has just been taken and its request was answered
Answered == pc \in {"fetched", "error"} /\ last_error \notin {"request", "incidents"}

\* the ids carried by a sequence of incidents
IncidentIds(seq) == [i \in 1..Len(seq) |-> seq[i].rawJSON.eventId]

\* an event whose time text parses and whose severity is a string
WellFormed(ev) == ev.persistedTime # Garbled /\ ev.severity # None

\* C1: along a chain of fetch_incidents calls, each given the cursor the
\* previous one returned, and whatever the client answers, no event id is
\* carried by more than one returned incident (neither in two calls nor twice
\* in one call).
C1_NoDuplicateDelivery == \A id \in Ids : returned[id] <= 1

\* C1's case: a later call is answered with two already delivered events that
\* share the cursor's time, and returns without delivering them again.
C1_Witness ==
    /\ pc = "fetched"
    /\ lastRun # EmptyDict
    /\ Len(events_data) = 2
    /\ events_data[1].eventId # events_data[2].eventId
    /\ \A i \in 1..2 :
          /\ events_data[i].persistedTime # Garbled
          /\ strftime(parse(events_data[i].persistedTime)) = lastRun.time
          /\ returned[events_data[i].eventId] = 1
    /\ incidents = <<>>

\* C6 as claimed: when the cursor of a first poll that delivered e1 alone is
\* given to a second poll, answered with e1 again and then a new well-formed
\* event e2 (its id no part of e1's) whose time equals the cursor's time, the
\* second poll returns and its incidents are exactly e2.
C6_BoundaryTieDelivered ==
    (/\ Answered
     /\ lastRun # EmptyDict
     /\ Len(events_data) = 2
     /\ lastRun.last_event_ids = PyStr(json_dumps(<<events_data[1].eventId>>))
     /\ ~IsSubstring(events_data[2].eventId, events_data[1].eventId)
     /\ \A i \in 1..2 :
           /\ WellFormed(events_data[i])
           /\ strftime(parse(events_data[i].persistedTime)) = lastRun.time)
    => (pc = "fetched" /\ IncidentIds(incidents) = <<events_data[2].eventId>>)

\* C8 as claimed: when a poll whose cursor holds a list of ids is answered
\* with events whose times all parse, every accepted event whose severity is
\* not a recognized string, or is missing, is delivered with severity 0, and
\* the poll returns.
Recognized(sev) ==
    sev # None /\ PyLower(sev) \in {<<"l", "o", "w">>,
                                    <<"i", "m", "p", "o", "r", "t", "a", "n", "t">>,
                                    <<"c", "r", "i", "t", "i", "c", "a", "l">>}

C8_UnknownSeverityDelivered ==
    (/\ Answered
     /\ LastEventIds(lastRun) = PyList(<<>>)
     /\ \A i \in 1..Len(events_data) : events_data[i].persistedTime # Garbled)
    => \A i \in 1..Len(events_data) :
          (/\ ~Recognized(events_data[i].severity)
           /\ \A j \in 1..(i - 1) : events_data[j].eventId # events_data[i].eventId)
          => /\ pc = "fetched"
             /\ \E k \in 1..Len(incidents) :
                   /\ incidents[k].rawJSON = events_data[i]
                   /\ incidents[k].severity = 0

\* the part of C8 the code keeps: an unrecognized severity string is
\* delivered with severity 0
C8_UnknownStringReached ==
    /\ pc = "fetched"
    /\ \E k \in 1..Len(incidents) :
          incidents[k].rawJSON.severity = medium /\ incidents[k].severity = 0

\* C7 as claimed: for every severity string, compared without regard to case,
\* the score is 1 for "low", 2 for "important" and "medium", 3 for "critical"
\* and "high", 0 otherwise.
C7_SeverityMapping ==
    dbot_score # -1 =>
        dbot_score =
            (IF severity_str \in CaseVariants(low_w) THEN 1
             ELSE IF severity_str \in CaseVariants(important_w) \cup CaseVariants(medium_w)
                  THEN 2
             ELSE IF severity_str \in CaseVariants(critical_w) \cup CaseVariants(high_w)
                  THEN 3
             ELSE 0)

\* C9 as claimed: the size main passes on denotes an integer no greater than
\* 50 and no greater than the configured max_fetch.
C9_PageSizeCap ==
    max_fetch # <<>> =>
        /\ StrToInt(max_fetch) <= 50
        /\ StrToInt(max_fetch) <= StrToInt(params_max_fetch)

\* the instant of the watermark a poll given the stored last run starts from
InputWatermark ==
    IF lastRun = EmptyDict THEN now - FirstFetch ELSE InstantOf(lastRun.time)

\* C3: when fetch_incidents returns, the time of next_run is not before the
\* time of the last run it was given, nor, the last run being absent, before
\* now minus first_fetch_time.
C3_MonotonicWatermark ==
    pc = "fetched" => InstantOf(next_run.time) >= InputWatermark

\* C3's case: a poll given a stored cursor delivers events and moves the time on
C3_Witness ==
    /\ pc = "fetched"
    /\ lastRun # EmptyDict
    /\ incidents # <<>>
    /\ InstantOf(next_run.time) > InstantOf(lastRun.time)

\* the server holds no event newer than the cursor the poll starts from
NothingNewer == \A ev \in source : ~(ev.persisted > InputWatermark)

\* the first-fetch cursor of a poll at the current time
FirstCursor == [time |-> IsoText(now - FirstFetch), last_event_ids |-> PyList(<<>>)]

\* what the server may answer a poll given cursor run
AnswersTo(run) ==
    ServerContents(source,
                   events_search_params(FetchQuery(run), max_fetch, <<"0">>, FALSE))

\* calling fetch_incidents again with next_run changes nothing
SecondCallSame ==
    \A content \in AnswersTo(next_run) :
        LET r == fetch_incidents(next_run, now, TRUE, content)
        IN  r.raised = "none" /\ r.next_run = next_run /\ r.incidents = <<>>

\* C4 as claimed: when the source holds nothing newer than the cursor, the
\* poll returns the last run it was given and no incidents, and so does a
\* second call given that next_run.
C4_NoOpReturnsInput ==
    (pc = "fetched" /\ NothingNewer)
    => (next_run = lastRun /\ incidents = <<>> /\ SecondCallSame)

\* C4 amended: the same, except that a poll given no last run returns the
\* first-fetch cursor (now minus first_fetch_time, no ids).
C4_NoOpIdempotent ==
    (pc = "fetched" /\ NothingNewer)
    => /\ next_run = (IF lastRun = EmptyDict THEN FirstCursor ELSE lastRun)
       /\ incidents = <<>>
       /\ SecondCallSame

\* C4's case: a stored cursor that has delivered events, a server that holds
\* events but none newer, and a poll that returned
C4_Witness ==
    /\ pc = "fetched"
    /\ NothingNewer
    /\ source # {}
    /\ lastRun # EmptyDict
    /\ lastRun.last_event_ids.kind = "str"

\* C5: a run whose events search request fails ends in main's error handler;
\* neither that step nor the handler changes the stored last run or hands
\* over incidents, and the next run sends the same query.
C5_RequestFailureKeepsCursor ==
    [][((pc = "idle" /\ pc' # "idle" /\ last_error' = "request")
        \/ (pc = "error" /\ last_error = "request"))
       => /\ pc' = (IF pc = "idle" THEN "error" ELSE "idle")
          /\ lastRun' = lastRun
          /\ handed' = handed
          /\ returned' = returned
          /\ FetchQuery(EffectiveRun(lastRun', now')) =
             FetchQuery(EffectiveRun(lastRun, now))]_vars

\* C5's case: the request failed while the server held events newer than a
\* stored cursor
C5_Witness ==
    /\ pc = "error"
    /\ last_error = "request"
    /\ lastRun # EmptyDict
    /\ ~NothingNewer

\* event i of the answer is one the loop does not skip as already fetched
WouldAccept(last_run, content, i) ==
    /\ ~InLastEventIds(content[i].eventId, LastEventIds(last_run))
    /\ \A j \in 1..(i - 1) : content[j].eventId # content[i].eventId

\* C10: when the answer holds an event that would be accepted and whose
\* persistedTime does not parse, fetch_incidents raises; the run stores no
\* cursor and hands over no incident, nor does the error handler.
C10_ParseFailureFailsFast ==
    [][((/\ pc = "idle" /\ pc' # "idle" /\ last_error' # "request"
         /\ \E i \in 1..Len(events_data') :
               /\ events_data'[i].persistedTime = Garbled
               /\ WouldAccept(lastRun, events_data', i))
        \/ (pc = "error" /\ last_error = "strftime"))
       => /\ pc' = (IF pc = "idle" THEN "error" ELSE "idle")
          /\ lastRun' = lastRun
          /\ handed' = handed
          /\ returned' = returned]_vars

\* C10's case: the first event of the page was accepted and made an incident,
\* the second one's time did not parse
C10_Witness ==
    /\ pc = "error"
    /\ last_error = "strftime"
    /\ Len(events_data) = 2
    /\ WellFormed(events_data[1])
    /\ WouldAccept(lastRun, events_data, 1)
    /\ events_data[2].persistedTime = Garbled

\* C2 as claimed, as the final result of a chain of polls: once a poll is
\* answered with nothing (so that, the server's contents staying as they are,
\* every later poll is the same no-op), every well-formed event the server
\* holds whose time is at or after now minus first_fetch_time, hence at or
\* after the initial watermark, has been delivered by some poll.
C2_EveryEventDelivered ==
    (pc = "fetched" /\ events_data = <<>>)
    => \A ev \in source :
          (WellFormed(ev) /\ ev.persisted >= now - FirstFetch)
          => returned[ev.eventId] >= 1

\* the ids a cursor's last_event_ids holds: the elements of the list, or the
\* quoted ids of the JSON text
CursorIds(run) ==
    IF run.last_event_ids.kind = "list"
    THEN {run.last_event_ids.val[i] : i \in 1..Len(run.last_event_ids.val)}
    ELSE {id \in Ids : IsSubstring(Quote(id), run.last_event_ids.val)}

\* C11 as claimed: after a call that accepted events, the ids next_run holds
\* are exactly those of the accepted events whose time is next_run's time.
C11_TrailingSetAtWatermark ==
    (pc = "fetched" /\ incidents # <<>>)
    => CursorIds(next_run) =
       {incidents[i].rawJSON.eventId :
           i \in {k \in 1..Len(incidents) : incidents[k].occurred = next_run.time}}

\* C11 amended: after a call that accepted events, the ids next_run holds are
\* exactly those of all the events the call accepted, whatever their times.
C11_IdsOfThePoll ==
    (pc = "fetched" /\ incidents # <<>>)
    => CursorIds(next_run) =
       {incidents[i].rawJSON.eventId : i \in 1..Len(incidents)}

\* C11's case: the call accepted two events and the time moved on between them
C11_Witness ==
    /\ pc = "fetched"
    /\ Len(incidents) = 2
    /\ InstantOf(incidents[1].occurred) < InstantOf(incidents[2].occurred)
    /\ next_run.time = incidents[2].occurred

\* the ids the poll starts with: those of the stored cursor, none without one
InputIds == IF lastRun = EmptyDict THEN {} ELSE CursorIds(lastRun)

\* event i of the answer is one the claimed rule skips: its time is the
\* watermark the poll started from and its id is among the ids it started with
ClaimedSkip(i) ==
    /\ events_data[i].persistedTime # Garbled
    /\ parse(events_data[i].persistedTime).t = InputWatermark
    /\ events_data[i].eventId \in InputIds

\* event i of the answer has an incident among those returned
Delivered(i) ==
    \E k \in 1..Len(incidents) : incidents[k].rawJSON = events_data[i]

TestedIn(id) ==
    IF lastRun = EmptyDict THEN FALSE
    ELSE IF lastRun.last_event_ids.kind = "list" THEN id \in CursorIds(lastRun)
    ELSE IsSubstring(id, lastRun.last_event_ids.val)

C13_QueryWindow ==
    Answered =>
        /\ request.rsql.field = "persistedTime"
        /\ request.sort = request.rsql.field
        /\ events_data \in
              {PageOf(s, StrToInt(request.size), 0) :
                  s \in SortedSeqs({ev \in source : ev.persisted >= InputWatermark},
                                   "persistedTime")}

\* C14 as claimed: after a call that accepted events, the time of next_run is
\* not before the time of any incident the call returned.
C14_WatermarkCoversDelivered ==
    (pc = "fetched" /\ incidents # <<>>)
    => \A k \in 1..Len(incidents) :
          InstantOf(next_run.time) >= InstantOf(incidents[k].occurred)

\* C15: a poll given no last run asks for the events after now minus
\* first_fetch_time and skips none of the answer for its id, returning the
\* first-fetch cursor when the answer is empty; the step after a returned poll
\* leaves a cursor stored, also when the poll returned no events; and no step
\* makes a stored cursor absent again.
C15_BootstrapThenSteady ==
    [][/\ (pc = "fetched" /\ lastRun = EmptyDict)
          => /\ InstantOf(request.rsql.value) = now - FirstFetch
             /\ \A i \in 1..Len(events_data) : Delivered(i)
             /\ Len(incidents) = Len(events_data)
             /\ (events_data = <<>> => next_run = FirstCursor)
       /\ pc = "fetched" => (lastRun' # EmptyDict /\ lastRun' = next_run)
       /\ lastRun # EmptyDict => lastRun' # EmptyDict]_vars

\* C15's case: the first poll found no events, and the first-fetch cursor is
\* stored
C15_Witness ==
    /\ pc = "stored"
    /\ events_data = <<>>
    /\ incidents = <<>>
    /\ lastRun = FirstCursor
    /\ InstantOf(request.rsql.value) = now - FirstFetch

\* C16 as claimed: the last_event_ids of every cursor a poll returns, and of
\* every cursor stored, is a list as in the first-fetch cursor, and no poll
\* raises when it adds the id of a new event to it.
C16_CursorShapeStable ==
    /\ pc \in {"fetched", "stored"} => next_run.last_event_ids.kind = "list"
    /\ lastRun # EmptyDict => lastRun.last_event_ids.kind = "list"
    /\ last_error # "extend"

\* C17 as claimed: between runs of main, every event the stored cursor has
\* moved past (its id is among the ids the cursor holds) has had its incident
\* handed over, and every incident a poll returned has been handed over.
C17_CommittedTogether ==
    pc = "idle" =>
        /\ \A id \in InputIds : handed[id] >= 1
        /\ \A id \in Ids : returned[id] >= 1 => handed[id] >= 1
====
